---- MODULE Spec2Model ----
(***************************************************************************)
(* Model of go/vt/tabletmanager/grpctmclient/client.go: the deadline       *)
(* check and dial step shared by every operation, the unary call through   *)
(* rpcCallTablet (a select over ctx.Done() and call.Done), the unary calls  *)
(* that dial and invoke directly (Sleep), and the two streaming calls      *)
(* HealthStream and Backup with their background goroutines, output        *)
(* channels and completion accessors.                                      *)
(***************************************************************************)
EXTENDS Integers, Sequences, FiniteSets, TLC

\* ---- bounds of the model ----
StartTime == 1      \* the clock value at which the call is made
MaxTime == 2        \* the clock stops ticking here
MaxPayload == 2     \* server payloads are 1..MaxPayload
MaxFrames == 11     \* a server produces at most this many frames
MaxAccessorCalls == 2

\* ---- program constants ----
ChanCap == 10       \* make(chan ..., 10)

Ops == {"rpcCallTablet", "Sleep", "HealthStream", "Backup"}

\* ---- error values: a dynamic type and a message ----
NilErr == [type |-> "nil", msg |-> ""]
TimeoutErr(m) == [type |-> "timeoutError", msg |-> m]
Errorf(m) == [type |-> "errorString", msg |-> m]
DialerErr == [type |-> "transport", msg |-> "dial failed"]
GrpcErr == [type |-> "grpc", msg |-> "rpc error"]
RecvErr == [type |-> "grpc", msg |-> "recv error"]
StreamErr == [type |-> "rpcplus", msg |-> "stream error"]
NotReturned == [type |-> "pending", msg |-> ""]

IsTimeoutErrorBroken(err) == err.type \in {"timeoutError", "errorString"}
\* IsTimeoutError: a type switch on the error's dynamic type
IsTimeoutError(err) == err.type = "timeoutError"

VARIABLES
    op,              \* the operation being called
    ok, deadline,    \* ctx.Deadline(): ok is FALSE when there is no deadline
    now,             \* time.Now()
    ctxErr,          \* ctx.Err(): "nil", "DeadlineExceeded" or "Canceled"
    bgAtCancel,      \* TRUE when ctx.Done() fired before the goroutine left its loop
    pc,              \* position of the caller's goroutine
    connectTimeout,  \* the local variable of dial/rpcCallTablet/Backup
    dialStart,       \* the clock value when the dialer was invoked
    dialAttempts,    \* number of invocations of the dialer
    dialBounded,     \* TRUE when the dialer was given a timeout
    invokes,         \* number of remote invocations issued (Go, stub call, StreamGo)
    ret,             \* the error the operation returned
    callDone,        \* call.Done has fired
    callError,       \* call.Error
    reply,           \* the response destination (0: zero value)
    payload,         \* the payload the server produced (0: none)
    closes,          \* number of Close() calls on the connection
    firstSignal,     \* which of ctx.Done()/call.Done fired first
    waited,          \* the case the select of rpcCallTablet took
    sent,            \* frames the server has produced so far
    streamEnd,       \* "open", "eof" or "error": how the server ended
    rpcstream,       \* Backup: the channel filled by the rpc client
    rpcstreamClosed, \* Backup: rpcstream has been closed
    cError,          \* Backup: c.Error
    bgpc,            \* position of the background goroutine
    ssr,             \* the frame the goroutine holds
    received,        \* frames the goroutine has received, in order
    logstream,       \* the output channel's buffer
    logClosed,       \* number of close(logstream) calls
    panicked,        \* a send on (or close of) a closed channel happened
    consumed,        \* frames the consumer has read, in order
    sawClosed,       \* the consumer has observed the channel closed
    finalErr,        \* HealthStream: the captured variable
    interrupted,     \* Backup: the captured variable
    endCause,        \* why the goroutine left its loop: "eof", "error", "ctx"
    hasAccessor,     \* the call returned a channel and an accessor
    accRets,         \* results of the accessor calls made so far
    accAfterClose    \* for each accessor call: was the channel seen closed

ctxVars == <<ok, deadline, now, ctxErr, bgAtCancel>>
dialVars == <<connectTimeout, dialStart, dialAttempts, dialBounded, invokes>>
unaryVars == <<callDone, callError, reply, payload, waited>>
serverVars == <<sent, streamEnd, rpcstream, rpcstreamClosed, cError>>
bgVars == <<bgpc, ssr, received, logstream, logClosed, panicked, finalErr, interrupted, endCause>>
consumerVars == <<consumed, sawClosed>>
accVars == <<accRets, accAfterClose>>

vars == <<op, ok, deadline, now, ctxErr, pc, connectTimeout, dialStart,
          dialAttempts, dialBounded, ret, callDone, callError, reply, payload,
          closes, firstSignal, waited, sent, streamEnd, rpcstream,
          rpcstreamClosed, cError, bgpc, ssr, received, logstream, logClosed,
          panicked, consumed, sawClosed, finalErr, interrupted, hasAccessor,
          accRets, accAfterClose, bgAtCancel, endCause, invokes>>

Init ==
    /\ op \in Ops
    /\ ok \in BOOLEAN
    /\ deadline \in (IF ok THEN 0..MaxTime ELSE {0})
    /\ now = StartTime
    /\ ctxErr = "nil"
    /\ bgAtCancel = FALSE
    /\ pc = "start"
    /\ connectTimeout = 0
    /\ dialStart = 0
    /\ dialAttempts = 0
    /\ dialBounded = FALSE
    /\ invokes = 0
    /\ ret = NotReturned
    /\ callDone = FALSE
    /\ callError = NilErr
    /\ reply = 0
    /\ payload = 0
    /\ closes = 0
    /\ firstSignal = "none"
    /\ waited = "none"
    /\ sent = 0
    /\ streamEnd = "open"
    /\ rpcstream = <<>>
    /\ rpcstreamClosed = FALSE
    /\ cError = NilErr
    /\ bgpc = "none"
    /\ ssr = 0
    /\ received = <<>>
    /\ logstream = <<>>
    /\ logClosed = 0
    /\ panicked = FALSE
    /\ consumed = <<>>
    /\ sawClosed = FALSE
    /\ finalErr = NilErr
    /\ interrupted = FALSE
    /\ endCause = "none"
    /\ hasAccessor = FALSE
    /\ accRets = <<>>
    /\ accAfterClose = <<>>

\* ---- the context: clock, deadline timer, explicit cancel ----

\* the clock advances; it is read by the deadline translation (before the
\* dial), by the dialer's timeout and by the context's deadline timer
Tick ==
    /\ now < MaxTime
    /\ \/ pc \in {"start", "dialing"}
       \/ ok /\ ctxErr = "nil" /\ now < deadline
    /\ now' = now + 1
    /\ UNCHANGED <<op, ok, deadline, ctxErr, bgAtCancel, pc, ret, closes, firstSignal, hasAccessor>>
    /\ UNCHANGED <<dialVars, unaryVars, serverVars, bgVars, consumerVars, accVars>>

FirstSignalAfter(sig) == IF firstSignal = "none" THEN sig ELSE firstSignal

\* the context's timer: closes ctx.Done() with cause DeadlineExceeded
DeadlineFire ==
    /\ ok
    /\ now >= deadline
    /\ ctxErr = "nil"
    /\ ctxErr' = "DeadlineExceeded"
    /\ bgAtCancel' = (endCause = "none")
    /\ firstSignal' = FirstSignalAfter("ctx")
    /\ UNCHANGED <<op, ok, deadline, now, pc, ret, closes, hasAccessor>>
    /\ UNCHANGED <<dialVars, unaryVars, serverVars, bgVars, consumerVars, accVars>>

\* the caller's cancel function: closes ctx.Done() with cause Canceled
Cancel ==
    /\ ctxErr = "nil"
    /\ ctxErr' = "Canceled"
    /\ bgAtCancel' = (endCause = "none")
    /\ firstSignal' = FirstSignalAfter("ctx")
    /\ UNCHANGED <<op, ok, deadline, now, pc, ret, closes, hasAccessor>>
    /\ UNCHANGED <<dialVars, unaryVars, serverVars, bgVars, consumerVars, accVars>>

\* ---- the deadline translation shared by dial, rpcCallTablet and Backup ----

\* connectTimeout = deadline.Sub(time.Now()) if a deadline is set, else 0
ConnectTimeout(isSet, d, t) == IF isSet THEN d - t ELSE 0

ExpiredNever(isSet, d, t) == FALSE
ExpiredIgnoringOk(isSet, d, t) == d - t < 0
\* if ok { ...; if connectTimeout < 0 { return timeoutError } }
Expired(isSet, d, t) == isSet /\ ConnectTimeout(isSet, d, t) < 0

\* the dialer is invoked: with a timeout unless connectTimeout == 0
InvokeDialer ==
    /\ connectTimeout' = ConnectTimeout(ok, deadline, now)
    /\ dialStart' = now
    /\ dialAttempts' = dialAttempts + 1
    /\ dialBounded' = (ConnectTimeout(ok, deadline, now) # 0)
    /\ UNCHANGED invokes

\* outcomes of the blocking dial: connected, refused, or the timeout elapsed
DialOutcomes ==
    {"ok", "refused"} \cup
    (IF dialBounded /\ now - dialStart >= connectTimeout THEN {"timeout"} ELSE {})

\* ---- the unary call through rpcCallTablet ----

rpcCallTablet_Begin ==
    /\ op = "rpcCallTablet"
    /\ pc = "start"
    /\ IF Expired(ok, deadline, now)
       THEN /\ ret' = TimeoutErr("timeout connecting to TabletManager")
            /\ pc' = "returned"
            /\ connectTimeout' = ConnectTimeout(ok, deadline, now)
            /\ UNCHANGED <<dialStart, dialAttempts, dialBounded, invokes>>
       ELSE /\ InvokeDialer
            /\ pc' = "dialing"
            /\ UNCHANGED ret
    /\ UNCHANGED <<op, closes, firstSignal, hasAccessor>>
    /\ UNCHANGED <<ctxVars, unaryVars, serverVars, bgVars, consumerVars, accVars>>

rpcCallTablet_DialedRetrying ==
    /\ op = "rpcCallTablet"
    /\ pc = "dialing"
    /\ \E outcome \in DialOutcomes :
         IF outcome = "ok"
         THEN /\ pc' = "select"
              /\ invokes' = invokes + 1
              /\ UNCHANGED <<ret, dialAttempts>>
         ELSE IF dialAttempts < 2
         THEN /\ pc' = "dialing"
              /\ dialAttempts' = dialAttempts + 1
              /\ UNCHANGED <<ret, invokes>>
         ELSE /\ pc' = "returned"
              /\ ret' = Errorf("RPC error")
              /\ UNCHANGED <<invokes, dialAttempts>>
    /\ UNCHANGED <<op, closes, firstSignal, hasAccessor>>
    /\ UNCHANGED <<connectTimeout, dialStart, dialBounded>>
    /\ UNCHANGED <<ctxVars, unaryVars, serverVars, bgVars, consumerVars, accVars>>
\* DialHTTP returns; on success the deferred Close is armed and the call is
\* issued with rpcClient.Go
rpcCallTablet_Dialed ==
    /\ op = "rpcCallTablet"
    /\ pc = "dialing"
    /\ \E outcome \in DialOutcomes :
         IF outcome = "ok"
         THEN /\ pc' = "select"
              /\ invokes' = invokes + 1
              /\ UNCHANGED ret
         ELSE /\ pc' = "returned"
              /\ ret' = Errorf("RPC error")
              /\ UNCHANGED invokes
    /\ UNCHANGED <<op, closes, firstSignal, hasAccessor>>
    /\ UNCHANGED <<connectTimeout, dialStart, dialAttempts, dialBounded>>
    /\ UNCHANGED <<ctxVars, unaryVars, serverVars, bgVars, consumerVars, accVars>>

\* the rpc client completes the call: call.Error is set, the reply is filled
\* in on success, and call.Done fires
rpcClient_Complete ==
    /\ op = "rpcCallTablet"
    /\ pc = "select"
    /\ ~callDone
    /\ callDone' = TRUE
    /\ \E p \in 1..MaxPayload, e \in {NilErr, StreamErr} :
         /\ payload' = p
         /\ callError' = e
         /\ reply' = IF e = NilErr THEN p ELSE reply
    /\ firstSignal' = FirstSignalAfter("call")
    /\ UNCHANGED <<op, pc, ret, closes, hasAccessor, waited>>
    /\ UNCHANGED <<ctxVars, dialVars, serverVars, bgVars, consumerVars, accVars>>

CtxDoneResultSwapped(err) ==
    IF err = "DeadlineExceeded"
    THEN Errorf("interrupted waiting for TabletManager")
    ELSE TimeoutErr("timeout waiting for TabletManager")
\* case <-ctx.Done(): timeoutError if ctx.Err() == DeadlineExceeded
CtxDoneResult(err) ==
    IF err = "DeadlineExceeded"
    THEN TimeoutErr("timeout waiting for TabletManager")
    ELSE Errorf("interrupted waiting for TabletManager")

CallDoneResultInverted(cerr) ==
    IF cerr # NilErr THEN NilErr ELSE Errorf("remote error")
\* case <-call.Done: remote error if call.Error != nil, else nil
CallDoneResult(cerr) ==
    IF cerr # NilErr THEN Errorf("remote error") ELSE NilErr

rpcCallTablet_CtxDoneLeaking ==
    /\ op = "rpcCallTablet"
    /\ pc = "select"
    /\ ctxErr # "nil"
    /\ ret' = CtxDoneResult(ctxErr)
    /\ waited' = "ctx"
    /\ pc' = "returned"
    /\ UNCHANGED <<op, closes, firstSignal, hasAccessor, callDone, callError, reply, payload>>
    /\ UNCHANGED <<ctxVars, dialVars, serverVars, bgVars, consumerVars, accVars>>
\* case <-ctx.Done() is taken; the deferred rpcClient.Close() runs
rpcCallTablet_CtxDone ==
    /\ op = "rpcCallTablet"
    /\ pc = "select"
    /\ ctxErr # "nil"
    /\ ret' = CtxDoneResult(ctxErr)
    /\ waited' = "ctx"
    /\ closes' = closes + 1
    /\ pc' = "returned"
    /\ UNCHANGED <<op, firstSignal, hasAccessor, callDone, callError, reply, payload>>
    /\ UNCHANGED <<ctxVars, dialVars, serverVars, bgVars, consumerVars, accVars>>

rpcCallTablet_CallDone ==
    /\ op = "rpcCallTablet"
    /\ pc = "select"
    /\ callDone
    /\ ret' = CallDoneResult(callError)
    /\ waited' = "call"
    /\ closes' = closes + 1
    /\ pc' = "returned"
    /\ UNCHANGED <<op, firstSignal, hasAccessor, callDone, callError, reply, payload>>
    /\ UNCHANGED <<ctxVars, dialVars, serverVars, bgVars, consumerVars, accVars>>

\* ---- dial(), used by the operations that invoke the stub directly ----

dial_Begin ==
    /\ op \in {"Sleep", "HealthStream"}
    /\ pc = "start"
    /\ IF Expired(ok, deadline, now)
       THEN /\ ret' = TimeoutErr("timeout connecting to TabletManager")
            /\ pc' = "returned"
            /\ connectTimeout' = ConnectTimeout(ok, deadline, now)
            /\ UNCHANGED <<dialStart, dialAttempts, dialBounded, invokes>>
       ELSE /\ InvokeDialer
            /\ pc' = "dialing"
            /\ UNCHANGED ret
    /\ UNCHANGED <<op, closes, firstSignal, hasAccessor>>
    /\ UNCHANGED <<ctxVars, unaryVars, serverVars, bgVars, consumerVars, accVars>>

dial_ReturnReclassified ==
    /\ op \in {"Sleep", "HealthStream"}
    /\ pc = "dialing"
    /\ \E outcome \in DialOutcomes :
         IF outcome = "ok"
         THEN /\ pc' = IF op = "Sleep" THEN "invoke" ELSE "startstream"
              /\ invokes' = invokes + 1
              /\ UNCHANGED ret
         ELSE /\ pc' = "returned"
              /\ ret' = IF outcome = "timeout"
                        THEN TimeoutErr("timeout connecting to TabletManager")
                        ELSE DialerErr
              /\ UNCHANGED invokes
    /\ UNCHANGED <<op, closes, firstSignal, hasAccessor>>
    /\ UNCHANGED <<connectTimeout, dialStart, dialAttempts, dialBounded>>
    /\ UNCHANGED <<ctxVars, unaryVars, serverVars, bgVars, consumerVars, accVars>>
\* grpc.Dial returns; on an error the caller returns it as it is, otherwise
\* it invokes the stub (c.Sleep, c.StreamHealth)
dial_Return ==
    /\ op \in {"Sleep", "HealthStream"}
    /\ pc = "dialing"
    /\ \E outcome \in DialOutcomes :
         IF outcome = "ok"
         THEN /\ pc' = IF op = "Sleep" THEN "invoke" ELSE "startstream"
              /\ invokes' = invokes + 1
              /\ UNCHANGED ret
         ELSE /\ pc' = "returned"
              /\ ret' = DialerErr
              /\ UNCHANGED invokes
    /\ UNCHANGED <<op, closes, firstSignal, hasAccessor>>
    /\ UNCHANGED <<connectTimeout, dialStart, dialAttempts, dialBounded>>
    /\ UNCHANGED <<ctxVars, unaryVars, serverVars, bgVars, consumerVars, accVars>>

\* ---- Sleep: dial, invoke the stub with ctx, return its error ----

\* the response (or a remote failure) arrives at the grpc stub
grpc_Complete ==
    /\ op = "Sleep"
    /\ pc = "invoke"
    /\ ~callDone
    /\ callDone' = TRUE
    /\ \E e \in {NilErr, GrpcErr} : callError' = e
    /\ firstSignal' = FirstSignalAfter("call")
    /\ UNCHANGED <<op, pc, ret, closes, hasAccessor, waited, reply, payload>>
    /\ UNCHANGED <<ctxVars, dialVars, serverVars, bgVars, consumerVars, accVars>>

\* c.Sleep(ctx, ...) returns, on the response or because ctx is done; the
\* stub's error is returned as it is and the deferred cc.Close() runs
Sleep_Return ==
    /\ op = "Sleep"
    /\ pc = "invoke"
    /\ \E src \in (IF callDone THEN {"call"} ELSE {}) \cup
                  (IF ctxErr # "nil" THEN {"ctx"} ELSE {}) :
         /\ waited' = src
         /\ ret' = IF src = "call" THEN callError ELSE GrpcErr
    /\ closes' = closes + 1
    /\ pc' = "returned"
    /\ UNCHANGED <<op, firstSignal, hasAccessor, callDone, callError, reply, payload>>
    /\ UNCHANGED <<ctxVars, dialVars, serverVars, bgVars, consumerVars, accVars>>

\* ---- the output channel ----

\* close(logstream): closing a closed channel panics
CloseLogstream ==
    /\ logClosed' = logClosed + 1
    /\ panicked' = (panicked \/ logClosed > 0)
    /\ UNCHANGED logstream

SendLogstreamUnbounded(f) ==
    /\ IF logClosed > 0
       THEN /\ panicked' = TRUE
            /\ UNCHANGED logstream
       ELSE /\ logstream' = Append(logstream, f)
            /\ UNCHANGED panicked
    /\ UNCHANGED logClosed
SendLogstreamDropping(f) ==
    /\ IF logClosed > 0
       THEN /\ panicked' = TRUE
            /\ UNCHANGED logstream
       ELSE /\ logstream' = IF Len(logstream) < 1 THEN Append(logstream, f) ELSE logstream
            /\ UNCHANGED panicked
    /\ UNCHANGED logClosed
\* logstream <- frame (enabled when there is room): a send on a closed
\* channel panics
SendLogstream(f) ==
    /\ Len(logstream) < ChanCap
    /\ IF logClosed > 0
       THEN /\ panicked' = TRUE
            /\ UNCHANGED logstream
       ELSE /\ logstream' = Append(logstream, f)
            /\ UNCHANGED panicked
    /\ UNCHANGED logClosed

\* ---- HealthStream ----

\* c.StreamHealth(ctx, ...) returns: on error the connection is closed and
\* nothing is returned; otherwise the goroutine is started
HealthStream_Start ==
    /\ op = "HealthStream"
    /\ pc = "startstream"
    /\ \E started \in BOOLEAN :
         IF started
         THEN /\ bgpc' = "recv"
              /\ hasAccessor' = TRUE
              /\ ret' = NilErr
              /\ UNCHANGED closes
         ELSE /\ closes' = closes + 1
              /\ ret' = GrpcErr
              /\ UNCHANGED <<bgpc, hasAccessor>>
    /\ pc' = "returned"
    /\ UNCHANGED <<op, firstSignal, ssr, received, logstream, logClosed, panicked, finalErr, interrupted, endCause>>
    /\ UNCHANGED <<ctxVars, dialVars, unaryVars, serverVars, consumerVars, accVars>>

\* the server sends one more frame on the health stream
grpcServer_Send ==
    /\ op = "HealthStream"
    /\ bgpc # "none"
    /\ streamEnd = "open"
    /\ sent < MaxFrames
    /\ sent' = sent + 1
    /\ UNCHANGED <<op, pc, ret, closes, firstSignal, hasAccessor, streamEnd, rpcstream, rpcstreamClosed, cError>>
    /\ UNCHANGED <<ctxVars, dialVars, unaryVars, bgVars, consumerVars, accVars>>

\* the server ends the health stream, cleanly or with an error
grpcServer_End ==
    /\ op = "HealthStream"
    /\ bgpc # "none"
    /\ streamEnd = "open"
    /\ \E e \in {"eof", "error"} : streamEnd' = e
    /\ UNCHANGED <<op, pc, ret, closes, firstSignal, hasAccessor, sent, rpcstream, rpcstreamClosed, cError>>
    /\ UNCHANGED <<ctxVars, dialVars, unaryVars, bgVars, consumerVars, accVars>>

\* what stream.Recv() can return now: the next frame, io.EOF, or an error
\* (a failed stream, ctx being done, or the connection closed by the ErrFunc)
RecvOutcomes ==
    (IF Len(received) < sent THEN {"frame"} ELSE {}) \cup
    (IF Len(received) = sent /\ streamEnd = "eof" THEN {"eof"} ELSE {}) \cup
    (IF Len(received) = sent /\ streamEnd = "error" THEN {"error"} ELSE {}) \cup
    (IF ctxErr # "nil" \/ closes > 0 THEN {"error"} ELSE {})

FinalErrAfterAny(r, old) == RecvErr
FinalErrAfterDropped(r, old) == old
\* if err != io.EOF { finalErr = err }
FinalErrAfter(r, old) == IF r = "error" THEN RecvErr ELSE old

\* one iteration of the goroutine up to the send or the close: stream.Recv()
\* returns, and on an error other than io.EOF finalErr is written
HealthStream_Recv ==
    /\ op = "HealthStream"
    /\ bgpc = "recv"
    /\ \E r \in RecvOutcomes :
         IF r = "frame"
         THEN /\ ssr' = Len(received) + 1
              /\ received' = Append(received, Len(received) + 1)
              /\ bgpc' = "publish"
              /\ UNCHANGED <<finalErr, endCause>>
         ELSE /\ finalErr' = FinalErrAfter(r, finalErr)
              /\ endCause' = r
              /\ bgpc' = "closing"
              /\ UNCHANGED <<ssr, received>>
    /\ UNCHANGED <<logstream, logClosed, panicked>>
    /\ UNCHANGED <<op, pc, ret, closes, firstSignal, hasAccessor, interrupted>>
    /\ UNCHANGED <<ctxVars, dialVars, unaryVars, serverVars, consumerVars, accVars>>

HealthStream_CloseThenWrite ==
    /\ op = "HealthStream"
    /\ bgpc = "closing"
    /\ IF logClosed = 0
       THEN /\ CloseLogstream
            /\ bgpc' = "closing"
            /\ UNCHANGED finalErr
       ELSE /\ finalErr' = RecvErr
            /\ bgpc' = "done"
            /\ UNCHANGED <<logstream, logClosed, panicked>>
    /\ UNCHANGED <<op, pc, ret, closes, firstSignal, hasAccessor, ssr, received, interrupted, endCause>>
    /\ UNCHANGED <<ctxVars, dialVars, unaryVars, serverVars, consumerVars, accVars>>
\* close(logstream); return
HealthStream_Close ==
    /\ op = "HealthStream"
    /\ bgpc = "closing"
    /\ CloseLogstream
    /\ bgpc' = "done"
    /\ UNCHANGED <<op, pc, ret, closes, firstSignal, hasAccessor, ssr, received, finalErr, interrupted, endCause>>
    /\ UNCHANGED <<ctxVars, dialVars, unaryVars, serverVars, consumerVars, accVars>>

\* logstream <- &actionnode.HealthStreamReply{...}
HealthStream_Publish ==
    /\ op = "HealthStream"
    /\ bgpc = "publish"
    /\ SendLogstream(ssr)
    /\ bgpc' = "recv"
    /\ UNCHANGED <<op, pc, ret, closes, firstSignal, hasAccessor, ssr, received, finalErr, interrupted, endCause>>
    /\ UNCHANGED <<ctxVars, dialVars, unaryVars, serverVars, consumerVars, accVars>>

\* the returned ErrFunc: cc.Close(); return finalErr
HealthStream_ErrFunc ==
    /\ op = "HealthStream"
    /\ hasAccessor
    /\ Len(accRets) < MaxAccessorCalls
    /\ closes' = closes + 1
    /\ accRets' = Append(accRets, finalErr)
    /\ accAfterClose' = Append(accAfterClose, sawClosed)
    /\ UNCHANGED <<op, pc, ret, firstSignal, hasAccessor>>
    /\ UNCHANGED <<ctxVars, dialVars, unaryVars, serverVars, bgVars, consumerVars>>

\* ---- Backup ----

Backup_Begin ==
    /\ op = "Backup"
    /\ pc = "start"
    /\ IF Expired(ok, deadline, now)
       THEN /\ ret' = TimeoutErr("timeout connecting to TabletManager.Backup")
            /\ pc' = "returned"
            /\ connectTimeout' = ConnectTimeout(ok, deadline, now)
            /\ UNCHANGED <<dialStart, dialAttempts, dialBounded, invokes>>
       ELSE /\ InvokeDialer
            /\ pc' = "dialing"
            /\ UNCHANGED ret
    /\ UNCHANGED <<op, closes, firstSignal, hasAccessor>>
    /\ UNCHANGED <<ctxVars, unaryVars, serverVars, bgVars, consumerVars, accVars>>

\* DialHTTP returns; on success the channels are made, StreamGo is issued,
\* the goroutine is started and the channel and ErrFunc are returned
Backup_Dialed ==
    /\ op = "Backup"
    /\ pc = "dialing"
    /\ \E outcome \in DialOutcomes :
         IF outcome = "ok"
         THEN /\ bgpc' = "select"
              /\ hasAccessor' = TRUE
              /\ ret' = NilErr
              /\ invokes' = invokes + 1
         ELSE /\ ret' = DialerErr
              /\ UNCHANGED <<bgpc, hasAccessor, invokes>>
    /\ pc' = "returned"
    /\ UNCHANGED <<op, closes, firstSignal, ssr, received, logstream, logClosed, panicked, finalErr, interrupted, endCause>>
    /\ UNCHANGED <<connectTimeout, dialStart, dialAttempts, dialBounded>>
    /\ UNCHANGED <<ctxVars, unaryVars, serverVars, consumerVars, accVars>>

\* the rpc client delivers one more frame on rpcstream (blocks when full)
StreamGo_Send ==
    /\ op = "Backup"
    /\ bgpc # "none"
    /\ streamEnd = "open"
    /\ sent < MaxFrames
    /\ Len(rpcstream) < ChanCap
    /\ sent' = sent + 1
    /\ rpcstream' = Append(rpcstream, sent + 1)
    /\ UNCHANGED <<op, pc, ret, closes, firstSignal, hasAccessor, streamEnd, rpcstreamClosed, cError>>
    /\ UNCHANGED <<ctxVars, dialVars, unaryVars, bgVars, consumerVars, accVars>>

\* the rpc client ends the call: c.Error is set and rpcstream is closed
StreamGo_End ==
    /\ op = "Backup"
    /\ bgpc # "none"
    /\ streamEnd = "open"
    /\ \E e \in {"eof", "error"} :
         /\ streamEnd' = e
         /\ cError' = IF e = "error" THEN StreamErr ELSE NilErr
    /\ rpcstreamClosed' = TRUE
    /\ UNCHANGED <<op, pc, ret, closes, firstSignal, hasAccessor, sent, rpcstream>>
    /\ UNCHANGED <<ctxVars, dialVars, unaryVars, bgVars, consumerVars, accVars>>

Backup_CtxDoneNoFlag ==
    /\ op = "Backup"
    /\ bgpc = "select"
    /\ ctxErr # "nil"
    /\ endCause' = "ctx"
    /\ bgpc' = "closing"
    /\ UNCHANGED <<op, pc, ret, closes, firstSignal, hasAccessor, interrupted>>
    /\ UNCHANGED <<ssr, received, logstream, logClosed, panicked, finalErr>>
    /\ UNCHANGED <<ctxVars, dialVars, unaryVars, serverVars, consumerVars, accVars>>
\* case <-ctx.Done(): interrupted = true
Backup_CtxDone ==
    /\ op = "Backup"
    /\ bgpc = "select"
    /\ ctxErr # "nil"
    /\ interrupted' = TRUE
    /\ endCause' = "ctx"
    /\ bgpc' = "closing"
    /\ UNCHANGED <<op, pc, ret, closes, firstSignal, hasAccessor>>
    /\ UNCHANGED <<ssr, received, logstream, logClosed, panicked, finalErr>>
    /\ UNCHANGED <<ctxVars, dialVars, unaryVars, serverVars, consumerVars, accVars>>

\* case ssr, ok := <-rpcstream: a frame, or the channel is closed and drained
Backup_Recv ==
    /\ op = "Backup"
    /\ bgpc = "select"
    /\ IF rpcstream # <<>>
       THEN /\ ssr' = Head(rpcstream)
            /\ rpcstream' = Tail(rpcstream)
            /\ received' = Append(received, Head(rpcstream))
            /\ bgpc' = "publish"
            /\ UNCHANGED endCause
       ELSE /\ rpcstreamClosed
            /\ endCause' = streamEnd
            /\ bgpc' = "closing"
            /\ UNCHANGED <<ssr, received, rpcstream>>
    /\ UNCHANGED <<logstream, logClosed, panicked, closes>>
    /\ UNCHANGED <<op, pc, ret, firstSignal, hasAccessor, finalErr, interrupted>>
    /\ UNCHANGED <<sent, streamEnd, rpcstreamClosed, cError>>
    /\ UNCHANGED <<ctxVars, dialVars, unaryVars, consumerVars, accVars>>

Backup_CloseNoReturn ==
    /\ op = "Backup"
    /\ bgpc = "closing"
    /\ CloseLogstream
    /\ closes' = closes + 1
    /\ bgpc' = IF logClosed = 0 THEN "select" ELSE "done"
    /\ UNCHANGED <<op, pc, ret, firstSignal, hasAccessor, ssr, received, finalErr, interrupted, endCause>>
    /\ UNCHANGED <<ctxVars, dialVars, unaryVars, serverVars, consumerVars, accVars>>
Backup_CloseLeaking ==
    /\ op = "Backup"
    /\ bgpc = "closing"
    /\ CloseLogstream
    /\ closes' = IF endCause = "ctx" THEN closes ELSE closes + 1
    /\ bgpc' = "done"
    /\ UNCHANGED <<op, pc, ret, firstSignal, hasAccessor, ssr, received, finalErr, interrupted, endCause>>
    /\ UNCHANGED <<ctxVars, dialVars, unaryVars, serverVars, consumerVars, accVars>>
\* close(logstream); rpcClient.Close(); return
Backup_Close ==
    /\ op = "Backup"
    /\ bgpc = "closing"
    /\ CloseLogstream
    /\ closes' = closes + 1
    /\ bgpc' = "done"
    /\ UNCHANGED <<op, pc, ret, firstSignal, hasAccessor, ssr, received, finalErr, interrupted, endCause>>
    /\ UNCHANGED <<ctxVars, dialVars, unaryVars, serverVars, consumerVars, accVars>>

\* logstream <- ssr
Backup_Publish ==
    /\ op = "Backup"
    /\ bgpc = "publish"
    /\ SendLogstream(ssr)
    /\ bgpc' = "select"
    /\ UNCHANGED <<op, pc, ret, closes, firstSignal, hasAccessor, ssr, received, finalErr, interrupted, endCause>>
    /\ UNCHANGED <<ctxVars, dialVars, unaryVars, serverVars, consumerVars, accVars>>

Backup_ErrFuncReadingCtx ==
    /\ op = "Backup"
    /\ hasAccessor
    /\ Len(accRets) < MaxAccessorCalls
    /\ accRets' = Append(accRets,
                         IF ctxErr # "nil"
                         THEN Errorf("TabletManager.Backup interrupted by context")
                         ELSE cError)
    /\ accAfterClose' = Append(accAfterClose, sawClosed)
    /\ UNCHANGED <<op, pc, ret, closes, firstSignal, hasAccessor>>
    /\ UNCHANGED <<ctxVars, dialVars, unaryVars, serverVars, bgVars, consumerVars>>
Backup_ErrFuncClosing ==
    /\ op = "Backup"
    /\ hasAccessor
    /\ Len(accRets) < MaxAccessorCalls
    /\ accRets' = Append(accRets,
                         IF interrupted
                         THEN Errorf("TabletManager.Backup interrupted by context")
                         ELSE cError)
    /\ accAfterClose' = Append(accAfterClose, sawClosed)
    /\ closes' = closes + 1
    /\ UNCHANGED <<op, pc, ret, firstSignal, hasAccessor>>
    /\ UNCHANGED <<ctxVars, dialVars, unaryVars, serverVars, bgVars, consumerVars>>
\* the returned ErrFunc: the interruption error if interrupted, else c.Error
Backup_ErrFunc ==
    /\ op = "Backup"
    /\ hasAccessor
    /\ Len(accRets) < MaxAccessorCalls
    /\ accRets' = Append(accRets,
                         IF interrupted
                         THEN Errorf("TabletManager.Backup interrupted by context")
                         ELSE cError)
    /\ accAfterClose' = Append(accAfterClose, sawClosed)
    /\ UNCHANGED <<op, pc, ret, closes, firstSignal, hasAccessor>>
    /\ UNCHANGED <<ctxVars, dialVars, unaryVars, serverVars, bgVars, consumerVars>>

\* ---- the consumer of the returned channel ----

\* v, ok := <-logstream: the next buffered frame, or the closed indication
Consumer_Read ==
    /\ hasAccessor
    /\ IF logstream # <<>>
       THEN /\ consumed' = Append(consumed, Head(logstream))
            /\ logstream' = Tail(logstream)
            /\ UNCHANGED sawClosed
       ELSE /\ logClosed > 0
            /\ ~sawClosed
            /\ sawClosed' = TRUE
            /\ UNCHANGED <<consumed, logstream>>
    /\ UNCHANGED <<op, pc, ret, closes, firstSignal, hasAccessor>>
    /\ UNCHANGED <<bgpc, ssr, received, logClosed, panicked, finalErr, interrupted, endCause>>
    /\ UNCHANGED <<ctxVars, dialVars, unaryVars, serverVars, accVars>>

Next ==
    \/ Tick
    \/ DeadlineFire
    \/ Cancel
    \/ rpcCallTablet_Begin
    \/ rpcCallTablet_Dialed
    \/ rpcClient_Complete
    \/ rpcCallTablet_CtxDone
    \/ rpcCallTablet_CallDone
    \/ dial_Begin
    \/ dial_Return
    \/ grpc_Complete
    \/ Sleep_Return
    \/ HealthStream_Start
    \/ grpcServer_Send
    \/ grpcServer_End
    \/ HealthStream_Recv
    \/ HealthStream_Publish
    \/ HealthStream_Close
    \/ HealthStream_ErrFunc
    \/ Backup_Begin
    \/ Backup_Dialed
    \/ StreamGo_Send
    \/ StreamGo_End
    \/ Backup_CtxDone
    \/ Backup_Recv
    \/ Backup_Publish
    \/ Backup_Close
    \/ Backup_ErrFunc
    \/ Consumer_Read

Spec == Init /\ [][Next]_vars

\* ---- properties ----

IsPrefix(a, b) == Len(a) <= Len(b) /\ \A i \in 1..Len(a) : a[i] = b[i]
ServerFrames == [i \in 1..sent |-> i]
Returned == pc = "returned"
\* the deadline was strictly in the past when the operation started
ExpiredAtStart == pc # "start" /\ ok /\ connectTimeout < 0
\* the unary call was issued and its wait has returned
WaitReturned == Returned /\ waited # "none"
\* what the completion signal alone determines
CompletionResult == IF callError = NilErr THEN NilErr ELSE Errorf("remote error")

\* C1: in every operation, a deadline strictly in the past at the start makes
\* the operation return an error that IsTimeoutError accepts, and the dialer
\* is never invoked.
C1_ExpiredDeadlineTimesOut ==
    ExpiredAtStart => /\ Returned
                      /\ IsTimeoutError(ret)
                      /\ dialAttempts = 0
                      /\ closes = 0
                      /\ ~hasAccessor
C1_Witness ==
    /\ ExpiredAtStart
    /\ op = "Backup"
    /\ IsTimeoutError(ret)
    /\ ctxErr = "nil"

\* C2 as stated: in rpcCallTablet, when ctx.Done() fires with cause
\* DeadlineExceeded before call.Done fires, the call returns a timeoutError
\* in every interleaving.
C2_Original ==
    (op = "rpcCallTablet" /\ WaitReturned /\ firstSignal = "ctx"
        /\ ctxErr = "DeadlineExceeded")
    => IsTimeoutError(ret)
\* C2 amended: under the same condition the call returns a timeoutError
\* whenever call.Done has still not fired when the select returns; when
\* call.Done has fired by then as well, the call returns either a timeoutError
\* or the result of the completion (nil or the remote error).
C2_TimeoutUnlessCompleted ==
    (op = "rpcCallTablet" /\ WaitReturned /\ firstSignal = "ctx"
        /\ ctxErr = "DeadlineExceeded")
    => \/ IsTimeoutError(ret) /\ ret.msg = "timeout waiting for TabletManager"
       \/ callDone /\ ret = CompletionResult
C2_Witness ==
    /\ op = "rpcCallTablet"
    /\ WaitReturned
    /\ firstSignal = "ctx"
    /\ ctxErr = "DeadlineExceeded"
    /\ ~callDone
    /\ IsTimeoutError(ret)

\* C3 as stated: in rpcCallTablet, when call.Done fires without error before
\* ctx.Done() fires, the call returns nil and the reply holds the server's
\* payload, in every interleaving.
C3_Original ==
    (op = "rpcCallTablet" /\ WaitReturned /\ firstSignal = "call"
        /\ callError = NilErr)
    => ret = NilErr /\ reply = payload
\* C3 amended: under the same condition the reply holds the server's payload,
\* and the call returns nil whenever ctx.Done() has not fired when the select
\* returns; when ctx.Done() has fired by then as well, the call returns nil,
\* a timeoutError (cause DeadlineExceeded) or the interrupted error (cause
\* Canceled).
C3_SuccessUnlessCancelled ==
    (op = "rpcCallTablet" /\ WaitReturned /\ firstSignal = "call"
        /\ callError = NilErr)
    => /\ reply = payload
       /\ payload \in 1..MaxPayload
       /\ \/ ret = NilErr
          \/ ctxErr = "DeadlineExceeded" /\ IsTimeoutError(ret)
          \/ ctxErr = "Canceled"
               /\ ret = Errorf("interrupted waiting for TabletManager")
C3_Witness ==
    /\ op = "rpcCallTablet"
    /\ WaitReturned
    /\ firstSignal = "call"
    /\ callError = NilErr
    /\ ctxErr = "nil"
    /\ ret = NilErr
    /\ reply = MaxPayload

\* C4: every return of rpcCallTablet is success, timeout, interrupted,
\* transport (dial) error or remote error; IsTimeoutError accepts the
\* returned error exactly when the deadline had expired before dialing or the
\* select took ctx.Done() with cause DeadlineExceeded; an explicit cancel
\* gives the interrupted error, a remote failure the remote error, and nil is
\* returned only when call.Done fired without error.
C4_ReturnClassification ==
    (op = "rpcCallTablet" /\ Returned)
    => /\ ret \in {NilErr,
                   TimeoutErr("timeout connecting to TabletManager"),
                   TimeoutErr("timeout waiting for TabletManager"),
                   Errorf("interrupted waiting for TabletManager"),
                   Errorf("RPC error"),
                   Errorf("remote error")}
       /\ IsTimeoutError(ret) <=>
             \/ ExpiredAtStart
             \/ waited = "ctx" /\ ctxErr = "DeadlineExceeded"
       /\ (waited = "ctx" /\ ctxErr = "Canceled")
             => ret = Errorf("interrupted waiting for TabletManager")
       /\ (waited = "call" /\ callError # NilErr) => ret = Errorf("remote error")
       /\ (waited = "none" /\ ~ExpiredAtStart) => ret = Errorf("RPC error")
       /\ ret = NilErr => (callDone /\ callError = NilErr /\ waited = "call")
C4_Witness ==
    /\ op = "rpcCallTablet"
    /\ Returned
    /\ waited = "ctx"
    /\ ctxErr = "Canceled"
    /\ callDone
    /\ ~IsTimeoutError(ret)

\* C5: a call made with no deadline never returns an error that
\* IsTimeoutError accepts, its context never reports DeadlineExceeded, and
\* its wait returns only after an explicit cancel or the completion fired.
C5_NoDeadlineNoTimeout ==
    ~ok => /\ ~IsTimeoutError(ret)
           /\ ctxErr # "DeadlineExceeded"
           /\ \A i \in 1..Len(accRets) : ~IsTimeoutError(accRets[i])
           /\ WaitReturned => \/ waited = "ctx" /\ ctxErr = "Canceled"
                              \/ waited = "call" /\ callDone
C5_Witness ==
    /\ ~ok
    /\ op = "rpcCallTablet"
    /\ WaitReturned
    /\ now = MaxTime
    /\ ret = NilErr

\* C6: in a streaming call with no cancellation, when the server produced
\* frames 1..n and ended the stream cleanly and the consumer has read up to
\* the closed indication, the consumer has read exactly 1..n in order, the
\* channel was closed once, and every accessor call, all of them made after
\* the closed indication, returns nil.
C6_CleanStreamDelivered ==
    (hasAccessor /\ ctxErr = "nil" /\ streamEnd = "eof" /\ sawClosed
        /\ \A i \in 1..Len(accRets) : accAfterClose[i])
    => /\ consumed = ServerFrames
       /\ logstream = <<>>
       /\ logClosed = 1
       /\ \A i \in 1..Len(accRets) : accRets[i] = NilErr
C6_Witness ==
    /\ hasAccessor
    /\ op = "HealthStream"
    /\ ctxErr = "nil"
    /\ streamEnd = "eof"
    /\ sawClosed
    /\ Len(consumed) = 3
    /\ Len(accRets) = 1
    /\ accAfterClose[1]

\* C7: in every state of a streaming call the frames already consumed
\* followed by the frames buffered in the output channel are a prefix of the
\* frames the goroutine received, which are a prefix of the frames the server
\* produced; only the frame the goroutine is about to publish can be missing,
\* and none is missing once the channel is closed.
C7_DeliveryIsPrefix ==
    hasAccessor =>
      LET out == consumed \o logstream IN
        /\ IsPrefix(out, received)
        /\ IsPrefix(received, ServerFrames)
        /\ Len(received) - Len(out) = (IF bgpc = "publish" THEN 1 ELSE 0)
        /\ logClosed > 0 => out = received
C7_Witness ==
    /\ op = "Backup"
    /\ logClosed > 0
    /\ interrupted
    /\ Len(consumed) = 2
    /\ Len(logstream) = 1
    /\ Len(received) = 3
    /\ sent > 3

\* C8: in every execution of a streaming call the output channel is closed
\* at most once and nothing is sent on it after it was closed.
C8_ClosedAtMostOnce ==
    /\ logClosed <= 1
    /\ ~panicked
    /\ logClosed = 1 <=> bgpc = "done"
C8_Witness ==
    /\ op = "Backup"
    /\ logClosed = 1
    /\ bgpc = "done"
    /\ ctxErr # "nil"
    /\ rpcstreamClosed
    /\ rpcstream # <<>>

\* C9 as stated: in HealthStream, once the stream was started the connection
\* is released exactly once on every exit path by the goroutine, however many
\* times the accessor is called; when starting the stream fails it is
\* released exactly once and no accessor is returned.
C9_HealthStreamReleasedOnce ==
    op = "HealthStream" =>
      /\ closes <= 1
      /\ (hasAccessor /\ bgpc = "done") => closes = 1
      /\ (Returned /\ ~hasAccessor /\ dialAttempts = 1 /\ ret = GrpcErr) => closes = 1

\* C10: in a Backup call that connected, the connection is released exactly
\* once, by the goroutine when it exits (end of stream, stream error or
\* cancellation), and the accessor never releases it.
C10_BackupReleasedOnce ==
    (op = "Backup" /\ hasAccessor)
    => closes = (IF bgpc = "done" THEN 1 ELSE 0)
C10_Witness ==
    /\ op = "Backup"
    /\ bgpc = "done"
    /\ closes = 1
    /\ Len(accRets) = MaxAccessorCalls
    /\ interrupted

\* what Backup's ErrFunc returns when interrupted is set
InterruptedErr == Errorf("TabletManager.Backup interrupted by context")

\* C11: in a unary call the connection obtained from the dialer is released
\* exactly once, when the call returns from its wait (success, remote error,
\* timeout or cancel), and nothing is released before that nor when the dial
\* failed or was skipped.
C11_UnaryReleasedOnce ==
    op \in {"rpcCallTablet", "Sleep"}
    => closes = (IF WaitReturned THEN 1 ELSE 0)
C11_Witness ==
    /\ op = "rpcCallTablet"
    /\ WaitReturned
    /\ waited = "ctx"
    /\ ctxErr = "Canceled"
    /\ closes = 1

\* C12 as stated: in Backup, when ctx.Done() fires before the goroutine has
\* left its loop, then once the channel is closed the interrupted flag is set
\* and every accessor call made after the closed indication reports the
\* interruption.
C12_Original ==
    (op = "Backup" /\ hasAccessor /\ bgAtCancel /\ logClosed > 0)
    => /\ interrupted
       /\ \A i \in 1..Len(accRets) : accAfterClose[i] => accRets[i] = InterruptedErr
\* C12 amended: under the same condition the accessor called after the closed
\* indication reports the interruption when the goroutine's select took
\* ctx.Done(), which it does whenever rpcstream is not closed and drained by
\* then; when rpcstream is closed and drained as well, the select may take
\* that case instead and the accessor returns c.Error.
C12_InterruptedUnlessStreamEnded ==
    (op = "Backup" /\ hasAccessor /\ bgAtCancel /\ logClosed > 0)
    => /\ \/ /\ endCause = "ctx"
             /\ interrupted
             /\ \A i \in 1..Len(accRets) :
                  accAfterClose[i] => accRets[i] = InterruptedErr
          \/ /\ endCause \in {"eof", "error"}
             /\ rpcstreamClosed
             /\ rpcstream = <<>>
             /\ ~interrupted
             /\ \A i \in 1..Len(accRets) :
                  accAfterClose[i] => accRets[i] = cError
       /\ ~rpcstreamClosed => endCause = "ctx"
C12_Witness ==
    /\ op = "Backup"
    /\ bgAtCancel
    /\ sawClosed
    /\ endCause = "ctx"
    /\ rpcstreamClosed
    /\ cError = NilErr
    /\ Len(accRets) = 1
    /\ accAfterClose[1]
    /\ accRets[1] = InterruptedErr

\* ---- a Backup call without deadline, with the scheduling the runtime gives ----

InitBackup ==
    /\ Init
    /\ op = "Backup"
    /\ ~ok

NextBackup ==
    \/ Cancel
    \/ Backup_Begin
    \/ Backup_Dialed
    \/ StreamGo_Send
    \/ StreamGo_End
    \/ Backup_CtxDone
    \/ Backup_Recv
    \/ Backup_Publish
    \/ Backup_Close
    \/ Backup_ErrFunc
    \/ Consumer_Read

\* the goroutine is scheduled whenever it can take a step, and its select
\* takes a case that is ready again and again; the consumer, the server and
\* the caller are under no obligation
FairSpecBackup ==
    /\ InitBackup
    /\ [][NextBackup]_vars
    /\ WF_vars(Backup_Publish)
    /\ WF_vars(Backup_Close)
    /\ WF_vars(Backup_Recv)
    /\ SF_vars(Backup_CtxDone)

\* C13 as stated: in Backup, once ctx.Done() has fired while the goroutine is
\* still running, the output channel is eventually closed and the connection
\* eventually released, whatever the consumer does.
C13_CancelEventuallyCloses ==
    (op = "Backup" /\ hasAccessor /\ ctxErr # "nil" /\ bgpc # "done")
    ~> (logClosed > 0 /\ closes = 1)

\* C14: in both streaming calls, all accessor calls made after the consumer
\* saw the channel closed return the same result, whatever happened between
\* them.
C14_AccessorIdempotent ==
    hasAccessor =>
      \A i, j \in 1..Len(accRets) :
        (accAfterClose[i] /\ accAfterClose[j]) => accRets[i] = accRets[j]
C14_Witness ==
    /\ op = "Backup"
    /\ Len(accRets) = 2
    /\ accAfterClose[1]
    /\ accAfterClose[2]
    /\ ctxErr = "Canceled"
    /\ ~bgAtCancel
    /\ accRets[2] = StreamErr

\* the dialer was invoked and failed
DialFailed ==
    /\ Returned
    /\ dialAttempts = 1
    /\ waited = "none"
    /\ closes = 0
    /\ ~hasAccessor

\* C15 as stated: when the deadline had not expired and the dial fails, every
\* operation returns the dialer's error unmodified, and IsTimeoutError
\* rejects it.
C15_Original ==
    DialFailed => (ret = DialerErr /\ ~IsTimeoutError(ret))
\* C15 amended: when the deadline had not expired and the dial fails, the
\* operations that go through dial and Backup return the dialer's error
\* unmodified, rpcCallTablet returns a new "RPC error for <alias>: <message>"
\* error built from it, and IsTimeoutError rejects the returned error in
\* every case.
C15_DialErrorNotTimeout ==
    DialFailed => /\ ~IsTimeoutError(ret)
                  /\ op # "rpcCallTablet" => ret = DialerErr
                  /\ op = "rpcCallTablet" => ret = Errorf("RPC error")
C15_Witness ==
    /\ DialFailed
    /\ op = "Sleep"
    /\ dialBounded
    /\ now - dialStart >= connectTimeout
    /\ ret = DialerErr

\* C16: in a streaming call whose goroutine ended on a receive error, the
\* consumer that saw the channel closed has read exactly the frames received
\* before the error and nothing else, and every accessor call made after that
\* returns the (non-nil) error; when the goroutine ended on a clean end of
\* stream such accessor calls return nil.
C16_StreamErrorViaAccessor ==
    (hasAccessor /\ sawClosed /\ endCause \in {"eof", "error"})
    => /\ consumed = received
       /\ \A k \in 1..Len(consumed) : consumed[k] = k /\ k <= sent
       /\ logstream = <<>>
       /\ \A i \in 1..Len(accRets) :
            accAfterClose[i] =>
              accRets[i] = (IF endCause = "eof" THEN NilErr
                            ELSE IF op = "HealthStream" THEN RecvErr
                            ELSE StreamErr)
C16_Witness ==
    /\ op = "HealthStream"
    /\ sawClosed
    /\ endCause = "error"
    /\ streamEnd = "error"
    /\ Len(consumed) = 2
    /\ Len(accRets) = 1
    /\ accAfterClose[1]
    /\ accRets[1] = RecvErr

\* C17 as stated: in a unary operation that dials and invokes the stub
\* directly, when the deadline expires after the connection is established
\* and before the response arrives, IsTimeoutError accepts the returned error.
C17_DialedCallTimeoutIsTimeoutError ==
    (op = "Sleep" /\ WaitReturned /\ waited = "ctx"
        /\ ctxErr = "DeadlineExceeded" /\ ~callDone)
    => IsTimeoutError(ret)

\* the value an accessor call returns from the shared state as it is now
TerminalResult ==
    IF op = "HealthStream" THEN finalErr
    ELSE IF interrupted THEN InterruptedErr ELSE cError

\* C18: in both streaming calls the goroutine has written the terminal result
\* (finalErr, interrupted) and finished before the channel is closed, nothing
\* writes it once the channel is closed, and an accessor call made after the
\* consumer saw the channel closed has read the final value.
C18_ResultWrittenBeforeClose ==
    /\ [](hasAccessor =>
            /\ logClosed > 0 => bgpc = "done"
            /\ (logClosed > 0 /\ op = "HealthStream")
                 => (finalErr = RecvErr <=> endCause = "error")
            /\ (logClosed > 0 /\ op = "Backup")
                 => (interrupted <=> endCause = "ctx")
            /\ \A i \in 1..Len(accRets) :
                 accAfterClose[i] => accRets[i] = TerminalResult)
    /\ [][logClosed > 0 => (finalErr' = finalErr /\ interrupted' = interrupted)]_vars
C18_Witness ==
    /\ op = "HealthStream"
    /\ sawClosed
    /\ finalErr = RecvErr
    /\ ctxErr = "Canceled"
    /\ Len(accRets) = 2
    /\ accAfterClose[2]
    /\ ~accAfterClose[1]

\* the frames that left the goroutine, followed by the one it holds
Forwarded ==
    (consumed \o logstream) \o (IF bgpc = "publish" THEN <<ssr>> ELSE <<>>)

\* C19 as stated: the output channel never holds more than ChanCap frames,
\* and while it holds ChanCap frames the goroutine is blocked in the send and
\* receives no further frame.
C19_Original ==
    /\ [](hasAccessor => /\ Len(logstream) <= ChanCap
                         /\ Len(logstream) = ChanCap => bgpc = "publish")
    /\ [][Len(logstream) = ChanCap => received' = received]_vars
\* C19 amended: the output channel never holds more than ChanCap frames;
\* while it holds ChanCap frames the goroutine receives at most one further
\* frame and is then blocked in the send of that frame, receiving nothing
\* more until the consumer reads; no frame is dropped.
C19_BackpressureAfterOneFrame ==
    /\ [](hasAccessor => /\ Len(logstream) <= ChanCap
                         /\ Len(rpcstream) <= ChanCap
                         /\ Len(received) <= Len(consumed) + Len(logstream) + 1
                         /\ Forwarded = received)
    /\ [][(Len(logstream) = ChanCap /\ bgpc = "publish")
            => (received' = received /\ ssr' = ssr /\ bgpc' = "publish")]_vars
C19_Witness ==
    /\ hasAccessor
    /\ Len(logstream) = ChanCap
    /\ bgpc = "publish"
    /\ Len(received) = ChanCap + 1
    /\ consumed = <<>>

\* C20 as stated: the dialer is invoked without a timeout exactly when the
\* call has no deadline; with a deadline that is not in the past, the current
\* time included, the dial is bounded by deadline - now.
C20_DialBoundedIffDeadline ==
    dialAttempts = 1 =>
      /\ dialBounded <=> ok
      /\ ok => connectTimeout = deadline - dialStart

\* C21: a call invokes the dialer at most once and issues at most one remote
\* invocation, none when the dial failed or was skipped; once the call has
\* returned, its result stands and it neither dials nor invokes again.
C21_SingleAttempt ==
    /\ [](/\ dialAttempts <= 1
          /\ invokes <= dialAttempts
          /\ (DialFailed \/ ExpiredAtStart) => invokes = 0
          /\ Returned => ret # NotReturned)
    /\ [][Returned => /\ dialAttempts' = dialAttempts
                      /\ invokes' = invokes
                      /\ ret' = ret
                      /\ pc' = pc]_vars
C21_Witness ==
    /\ op = "rpcCallTablet"
    /\ Returned
    /\ waited = "call"
    /\ callError # NilErr
    /\ ret = Errorf("remote error")
    /\ dialAttempts = 1
    /\ invokes = 1
    /\ ctxErr = "Canceled"

\* ---- a HealthStream call without deadline, with the scheduling the runtime gives ----

InitHealthStream ==
    /\ Init
    /\ op = "HealthStream"
    /\ ~ok

NextHealthStream ==
    \/ Cancel
    \/ dial_Begin
    \/ dial_Return
    \/ HealthStream_Start
    \/ grpcServer_Send
    \/ grpcServer_End
    \/ HealthStream_Recv
    \/ HealthStream_Publish
    \/ HealthStream_Close
    \/ HealthStream_ErrFunc
    \/ Consumer_Read

\* the goroutine is scheduled whenever it can take a step; the consumer, the
\* server and the caller are under no obligation
FairSpecHealthStream ==
    /\ InitHealthStream
    /\ [][NextHealthStream]_vars
    /\ WF_vars(HealthStream_Recv)
    /\ WF_vars(HealthStream_Publish)
    /\ WF_vars(HealthStream_Close)

\* C22 as stated: in HealthStream, once the stream has ended, failed or been
\* cancelled, the goroutine eventually terminates and closes the output
\* channel, even when the consumer has stopped reading.
C22_GoroutineEventuallyCloses ==
    (op = "HealthStream" /\ hasAccessor
        /\ (streamEnd # "open" \/ ctxErr # "nil"))
    ~> (bgpc = "done" /\ logClosed > 0)

====
